---- MODULE Spec2Model ----
(***************************************************************************)
(* A model of a10.py, the "world record" chatbot: the query loop, the      *)
(* pattern-action table, the record lookup functions and the text          *)
(* cleaner.                                                                *)
(*                                                                         *)
(* Strings.  A Python str is a sequence of symbols.  A symbol is one       *)
(* character ("1", ":", " ", "\n") or one literal of the program taken as  *)
(* an atom (a query token such as "mario", an infobox label such as        *)
(* "Fastest time", a unit such as "km").  Two characters outside           *)
(* string.printable are named NBSP and EACUTE.                             *)
(*                                                                         *)
(* Values.  A Python value is a record [kind, val]: PyStr(s) is the str s, *)
(* PyList(l) the list of the strs in l, PyNone is None.                    *)
(***************************************************************************)
EXTENDS Integers, Sequences, FiniteSets, TLC

\* Longest subject (in tokens) typed after a question's literal words.
MaxSubjectLen == 2
\* Longest infobox body (in symbols) between a label and a unit.
MaxBodyLen == 3
\* Longest raw text given to clean_text on its own.
MaxTextLen == 4

VARIABLES
    pc,           \* where the program is: start, prompt, search, page, extract, done, crashed
    pa_list,      \* the pattern-action table (module global)
    query,        \* the tokens of the line read at the last prompt
    tried,        \* indexes of the table entries whose pattern was matched against query
    invoked,      \* indexes of the table entries whose action was called for query, in order
    mat,          \* the captures match() returned for the entry dispatched to
    title,        \* the argument the dispatched lookup received (and hands to wikipedia.search)
    html,         \* the page fetched for query, while its lookup runs
    value,        \* what the dispatched action returned
    answers,      \* what search_pa_list returned
    printed,      \* the answer lines printed for query
    err,          \* the exception raised while handling query ("none" if none)
    trace,        \* the collaborator and extraction steps run for query, in order
    farewells,    \* how often the farewell line was printed
    text,         \* clean_text on its own: the raw input
    cleaned,      \*   clean_text(text)
    recleaned,    \*   clean_text(clean_text(text))
    stage         \*   raw, once, twice

vars == <<pc, pa_list, query, tried, invoked, mat, title, html, value, answers,
          printed, err, trace, farewells, text, cleaned, recleaned, stage>>

loopVars == <<pc, pa_list, query, tried, invoked, mat, title, html, value, answers,
              printed, err, trace, farewells>>

cleanVars == <<text, cleaned, recleaned, stage>>

\* ------------------------------------------------------------------ values

PyStr(s) == [kind |-> "str", val |-> s]

PyList(l) == [kind |-> "list", val |-> l]

PyNone == [kind |-> "None", val |-> <<>>]

\* Python truthiness of a value: a non-empty str or list.
Truthy(v) == v.kind # "None" /\ Len(v.val) > 0

\* The items a for-loop over v yields: a list's elements, a str's characters.
Iterate(v) ==
    IF v.kind = "list" THEN v.val
    ELSE [i \in 1..Len(v.val) |-> <<v.val[i]>>]

\* All sequences over S of length at most n.
BoundedSeq(S, n) == UNION {[1..k -> S] : k \in 0..n}

\* " ".join(tokens)
RECURSIVE Join(_)
Join(tokens) ==
    IF Len(tokens) = 0 THEN <<>>
    ELSE IF Len(tokens) = 1 THEN <<tokens[1]>>
    ELSE <<tokens[1], " ">> \o Join(Tail(tokens))

\* "...".split() of a pattern literal, given here already split.
WILDCARD == "%"

\* ------------------------------------------------------------------ match

\* match(pattern, source): [ok |-> FALSE] for None, else the captures, one
\* str per wildcard.  The wildcard takes the longest span first.
RECURSIVE match(_, _)
match(pattern, source) ==
    IF Len(pattern) = 0 THEN
        [ok |-> Len(source) = 0, caps |-> <<>>]
    ELSE IF pattern[1] = WILDCARD THEN
        LET rest(k) == match(Tail(pattern), SubSeq(source, k + 1, Len(source)))
            good == {k \in 0..Len(source) : rest(k).ok}
        IN  IF good = {} THEN [ok |-> FALSE, caps |-> <<>>]
            ELSE LET k == CHOOSE m \in good : \A n \in good : n <= m
                 IN  [ok |-> TRUE,
                      caps |-> <<Join(SubSeq(source, 1, k))>> \o rest(k).caps]
    ELSE IF Len(source) = 0 THEN [ok |-> FALSE, caps |-> <<>>]
    ELSE IF pattern[1] = source[1] THEN match(Tail(pattern), Tail(source))
    ELSE [ok |-> FALSE, caps |-> <<>>]

\* ------------------------------------------------------------------ table

InitialPaList == <<
    [pat |-> <<"what", "is", "the", "fastest", "time", "for", WILDCARD>>,
     act |-> "get_fastest_time"],
    [pat |-> <<"who", "holds", "the", "record", "for", "the", "fastest", "time", "in", WILDCARD>>,
     act |-> "get_fastest_time"],
    [pat |-> <<"what", "is", "the", "highest", "score", "in", WILDCARD>>,
     act |-> "get_highest_score"],
    [pat |-> <<"who", "has", "the", "highest", "score", "in", WILDCARD>>,
     act |-> "get_highest_score"],
    [pat |-> <<"what", "is", "the", "longest", "distance", "in", WILDCARD>>,
     act |-> "get_longest_distance"],
    [pat |-> <<"who", "holds", "the", "record", "for", "the", "longest", "distance", "in", WILDCARD>>,
     act |-> "get_longest_distance"],
    [pat |-> <<"bye">>, act |-> "bye_action"] >>

\* ------------------------------------------------------------------ clean_text

NBSP == "U+00A0"

EACUTE == "U+00E9"

\* The symbols of the model that are not in string.printable.
NonPrintable == {NBSP, EACUTE}

\* "".join([char if char in string.printable else " " for char in text])
only_ascii(t) == [i \in 1..Len(t) |-> IF t[i] \notin NonPrintable THEN t[i] ELSE " "]

\* re.sub(ch + "+", ch, t): every maximal run of ch becomes one ch.
RECURSIVE re_sub_runs(_, _)
re_sub_runs(ch, t) ==
    IF Len(t) = 0 THEN <<>>
    ELSE IF t[1] = ch /\ Len(t) > 1 /\ t[2] = ch THEN re_sub_runs(ch, Tail(t))
    ELSE <<t[1]>> \o re_sub_runs(ch, Tail(t))

\* A slip: the cleaning steps in another order, runs collapsed before the
\* replacement of the non-printable characters.
clean_text_CollapseFirst(t) ==
    only_ascii(re_sub_runs("\n", re_sub_runs(" ", t)))

\* A slip: the newline step reads only_ascii instead of no_dup_spaces.
clean_text_SpacesKept(t) ==
    re_sub_runs("\n", only_ascii(t))

clean_text(t) ==
    LET no_dup_spaces == re_sub_runs(" ", only_ascii(t))
        no_dup_newlines == re_sub_runs("\n", no_dup_spaces)
    IN  no_dup_newlines

\* ------------------------------------------------------------------ calls

\* The outcome of a Python call: a returned value or a raised exception.
Return(v) == [raised |-> "none", ret |-> v]

Raise(e) == [raised |-> e, ret |-> PyNone]

\* ------------------------------------------------------------------ get_match

Digits == {"0", "1", "2", "3", "4", "5", "6", "7", "8", "9"}

\* The three patterns share one shape:
\*   (?:<label>.*?)(?: ?[\d]+ )?(?P<name>[<group>]+)(?:.*?)<unit>
FastestTimePattern ==
    [label |-> "Fastest time", group |-> Digits \cup {":", "."}, unit |-> "s",
     error_text |-> "Page infobox has no fastest time information"]

HighestScorePattern ==
    [label |-> "Highest score", group |-> Digits \cup {","}, unit |-> "points",
     error_text |-> "Page infobox has no highest score information"]

LongestDistancePattern ==
    [label |-> "Longest distance", group |-> Digits \cup {",", "."}, unit |-> "km",
     error_text |-> "Page infobox has no longest distance information"]

\* (?: ?[\d]+ ) tried at position p of t: the position after it, or 0 when it
\* does not match there.
OptionalNumber(t, p) ==
    LET s == IF p <= Len(t) /\ t[p] = " " THEN p + 1 ELSE p
        ends == {e \in s + 1..Len(t) :
                    /\ \A j \in s..e - 1 : t[j] \in Digits
                    /\ t[e] = " "}
    IN  IF ends = {} THEN 0 ELSE (CHOOSE e \in ends : TRUE) + 1

\* The lengths the named group can take at position q so that the lazy tail
\* and the unit still match.
GroupLengths(t, P, q) ==
    {g \in 1..Len(t) - q + 1 :
        /\ \A j \in q..q + g - 1 : t[j] \in P.group
        /\ \E u \in q + g..Len(t) : t[u] = P.unit}

\* What follows the label and its lazy tail, tried at position q0: the
\* optional number first, then without it; the group takes its longest length.
AfterLabel(t, P, q0) ==
    LET qp == OptionalNumber(t, q0)
        q == IF qp # 0 /\ GroupLengths(t, P, qp) # {} THEN qp ELSE q0
        lens == GroupLengths(t, P, q)
    IN  IF lens = {} THEN [ok |-> FALSE, group |-> <<>>]
        ELSE LET g == CHOOSE m \in lens : \A n \in lens : n <= m
             IN  [ok |-> TRUE, group |-> SubSeq(t, q, q + g - 1)]

\* re.compile(pattern, re.DOTALL).search(text): the leftmost start, the
\* shortest lazy tail after the label.
re_search(t, P) ==
    LET hits == {h \in (1..Len(t)) \X (1..Len(t) + 1) :
                    /\ t[h[1]] = P.label
                    /\ h[2] > h[1]
                    /\ AfterLabel(t, P, h[2]).ok}
    IN  IF hits = {} THEN [ok |-> FALSE, group |-> <<>>]
        ELSE LET h == CHOOSE x \in hits : \A y \in hits :
                          x[1] < y[1] \/ (x[1] = y[1] /\ x[2] <= y[2])
             IN  AfterLabel(t, P, h[2])

get_match(t, P, error_text) ==
    LET m == re_search(t, P)
    IN  IF ~m.ok THEN Raise("AttributeError") ELSE Return(m)

\* ------------------------------------------------------------------ lookups

\* soup.find_all(class_="infobox"): a page is the sequence of its infobox texts.
get_first_infobox_text(page) ==
    LET results == page
    IN  IF Len(results) = 0 THEN Raise("LookupError") ELSE Return(results[1])

\* The regex a lookup function searches with.
PatternOf(act) ==
    CASE act = "get_fastest_time" -> FastestTimePattern
      [] act = "get_highest_score" -> HighestScorePattern
      [] act = "get_longest_distance" -> LongestDistancePattern

\* get_fastest_time, get_highest_score, get_longest_distance once
\* get_page_html has returned page: the outcome, with the steps that ran.
lookup(act, page) ==
    LET box == get_first_infobox_text(page)
    IN  IF box.raised # "none" THEN [out |-> box, steps |-> <<"infobox">>]
        ELSE LET infobox_text == clean_text(box.ret)
                 P == PatternOf(act)
                 m == get_match(infobox_text, P, P.error_text)
             IN  [out |-> IF m.raised # "none" THEN m ELSE Return(PyStr(m.ret.group)),
                  steps |-> <<"infobox", "match">>]

\* A slip: the action returns an empty list instead of raising.
bye_action_Returns(dummy) == Return(PyList(<<>>))

bye_action(dummy) == Raise("KeyboardInterrupt")

\* ------------------------------------------------------------------ search_pa_list

\* A slip: the test of the match result inverted (mat is None).
search_pa_list_loop_Inverted(i, src, table) ==
    IF i > Len(table) THEN [entry |-> 0, mat |-> <<>>, tried |-> {}]
    ELSE IF ~match(table[i].pat, src).ok
         THEN [entry |-> i, mat |-> <<>>, tried |-> {i}]
         ELSE [entry |-> 0, mat |-> <<>>, tried |-> i..Len(table)]

\* for pat, act in pa_list, from entry i on: the first entry whose pattern
\* matches src (0 when the loop runs out), its captures, the entries tried.
RECURSIVE search_pa_list_loop(_, _, _)
search_pa_list_loop(i, src, table) ==
    IF i > Len(table) THEN [entry |-> 0, mat |-> <<>>, tried |-> {}]
    ELSE LET m == match(table[i].pat, src)
         IN  IF m.ok THEN [entry |-> i, mat |-> m.caps, tried |-> {i}]
             ELSE LET r == search_pa_list_loop(i + 1, src, table)
                  IN  [r EXCEPT !.tried = r.tried \cup {i}]

\* A slip: the two fixed answers exchanged.
search_pa_list_default_NoAnswers == PyList(<<<<"No answers">>>>)

\* return ["I don't understand"]
search_pa_list_default == PyList(<<<<"I don't understand">>>>)

\* A slip: the fallback taken for every answer.
search_pa_list_return_Always(answer) == PyList(<<<<"No answers">>>>)

\* return answer if answer else ["No answers"]
search_pa_list_return(answer) ==
    IF Truthy(answer) THEN answer ELSE PyList(<<<<"No answers">>>>)

\* ------------------------------------------------------------------ inputs

SubjectWords == <<"mario", "kart", "wii", "bye">>

\* The subjects a user asks about: "", "mario", "mario kart", ...
Subjects ==
    {SubSeq(SubjectWords, 1, k) : k \in 0..MaxSubjectLen} \cup {<<"bye">>}

\* The literal words of a pattern, without its wildcard.
Literals(pat) == SelectSeq(pat, LAMBDA w : w # WILDCARD)

\* The lines a user types, tokenized: every question of the table with
\* every subject, questions cut short, and lines the table does not know.
Queries ==
    {Literals(InitialPaList[i].pat) \o s : i \in 1..Len(InitialPaList), s \in Subjects}
    \cup {SubSeq(InitialPaList[i].pat, 1, 5) : i \in 1..Len(InitialPaList) - 1}
    \cup {<<>>, <<"hello">>, <<"hello", "bye">>, <<"bye", "bye">>, <<"mario", "kart">>}

BodyChars == {"1", ":", " ", NBSP}

\* The raw text of an infobox: a label, a body, a unit.
InfoboxTexts ==
    {f[1] \o b \o f[2] :
        f \in {<< <<>>, <<>> >>,
               << <<"Fastest time">>, <<"s">> >>,
               << <<"Fastest time">>, <<>> >>,
               << <<"Highest score">>, <<"points">> >>,
               << <<"Longest distance">>, <<"km">> >>},
        b \in BoundedSeq(BodyChars, MaxBodyLen)}

\* The pages WikipediaPage(...).html() can return: no infobox, or one.
Pages == {<<>>} \cup {<<t>> : t \in InfoboxTexts}

\* What wikipedia.search can answer: titles, no title, a failure.
SearchOutcomes == {Return(<<"title">>), Return(<<>>), Raise("HTTPTimeoutError")}

\* What WikipediaPage(title).html() can answer besides a page.
PageErrors == {"PageError", "DisambiguationError", "HTTPTimeoutError"}

\* ------------------------------------------------------------------ query_loop

\* except (KeyboardInterrupt, EOFError): break
Caught == {"KeyboardInterrupt", "EOFError"}

\* An exception e leaves the try body: the loop breaks and the farewell is
\* printed when the except clause names e, otherwise the program dies.
Raised(e) ==
    /\ err' = e
    /\ pc' = IF e \in Caught THEN "done" ELSE "crashed"
    /\ farewells' = IF e \in Caught THEN farewells + 1 ELSE farewells

\* search_pa_list has returned ans: its items are printed, the loop goes on.
Answered(ans) ==
    /\ answers' = ans
    /\ printed' = Iterate(ans)
    /\ pc' = "prompt"
    /\ UNCHANGED <<err, farewells>>

Init ==
    /\ pc = "start"
    /\ pa_list = InitialPaList
    /\ query = <<>>
    /\ tried = {}
    /\ invoked = <<>>
    /\ mat = <<>>
    /\ title = PyNone
    /\ html = <<>>
    /\ value = PyNone
    /\ answers = PyNone
    /\ printed = <<>>
    /\ err = "none"
    /\ trace = <<>>
    /\ farewells = 0
    /\ text = <<>>
    /\ cleaned = <<>>
    /\ recleaned = <<>>
    /\ stage = "idle"

\* print("Welcome to the World Record database!\n")
Welcome ==
    /\ pc = "start"
    /\ pc' = "prompt"
    /\ UNCHANGED <<pa_list, query, tried, invoked, mat, title, html, value, answers,
                   printed, err, trace, farewells>>
    /\ UNCHANGED cleanVars

\* A line is read and search_pa_list runs up to the dispatched action's
\* first call of a collaborator.
ReadQuery ==
    /\ pc = "prompt"
    /\ \E q \in Queries :
        LET r == search_pa_list_loop(1, q, pa_list)
        IN  /\ query' = q
            /\ tried' = r.tried
            /\ mat' = r.mat
            /\ html' = <<>>
            /\ value' = PyNone
            /\ trace' = <<>>
            /\ IF r.entry = 0 THEN
                   /\ invoked' = <<>>
                   /\ title' = PyNone
                   /\ Answered(search_pa_list_default)
               ELSE IF pa_list[r.entry].act = "bye_action" THEN
                   LET out == bye_action(r.mat)
                   IN  /\ invoked' = <<r.entry>>
                       /\ title' = PyNone
                       /\ IF out.raised # "none"
                          THEN /\ Raised(out.raised)
                               /\ answers' = PyNone
                               /\ printed' = <<>>
                          ELSE Answered(search_pa_list_return(out.ret))
               ELSE
                   /\ invoked' = <<r.entry>>
                   /\ title' = PyList(r.mat)
                   /\ pc' = "search"
                   /\ answers' = PyNone
                   /\ printed' = <<>>
                   /\ err' = "none"
                   /\ UNCHANGED farewells
    /\ UNCHANGED pa_list
    /\ UNCHANGED cleanVars

\* A slip: a failed search is tried again.
WikiSearch_Retry ==
    /\ pc = "search"
    /\ Len(trace) < 3
    /\ trace' = Append(trace, "search")
    /\ \E out \in SearchOutcomes :
        IF out.raised # "none" \/ Len(out.ret) = 0 THEN UNCHANGED <<pc, err, farewells>>
        ELSE pc' = "page" /\ UNCHANGED <<err, farewells>>
    /\ UNCHANGED <<pa_list, query, tried, invoked, mat, title, html, value, answers, printed>>
    /\ UNCHANGED cleanVars

\* results = wikipedia.search(title), then results[0]
WikiSearch ==
    /\ pc = "search"
    /\ trace' = Append(trace, "search")
    /\ \E out \in SearchOutcomes :
        IF out.raised # "none" THEN Raised(out.raised)
        ELSE IF Len(out.ret) = 0 THEN Raised("IndexError")
        ELSE pc' = "page" /\ UNCHANGED <<err, farewells>>
    /\ UNCHANGED <<pa_list, query, tried, invoked, mat, title, html, value, answers, printed>>
    /\ UNCHANGED cleanVars

\* WikipediaPage(results[0]).html()
WikiPage ==
    /\ pc = "page"
    /\ trace' = Append(trace, "page")
    /\ \/ \E page \in Pages :
            /\ html' = page
            /\ pc' = "extract"
            /\ UNCHANGED <<err, farewells>>
       \/ \E e \in PageErrors :
            /\ Raised(e)
            /\ UNCHANGED html
    /\ UNCHANGED <<pa_list, query, tried, invoked, mat, title, value, answers, printed>>
    /\ UNCHANGED cleanVars

\* The rest of the lookup, search_pa_list's return and the printing of the
\* answers.
Extract ==
    /\ pc = "extract"
    /\ LET r == lookup(pa_list[invoked[1]].act, html)
       IN  /\ trace' = trace \o r.steps
           /\ IF r.out.raised # "none"
              THEN Raised(r.out.raised) /\ UNCHANGED <<value, answers, printed>>
              ELSE value' = r.out.ret /\ Answered(search_pa_list_return(r.out.ret))
    /\ html' = <<>>
    /\ UNCHANGED <<pa_list, query, tried, invoked, mat, title>>
    /\ UNCHANGED cleanVars

\* Ctrl-C while the try body runs.
Interrupt ==
    /\ pc \in {"prompt", "search", "page", "extract"}
    /\ Raised("KeyboardInterrupt")
    /\ UNCHANGED <<pa_list, query, tried, invoked, mat, title, html, value, answers,
                   printed, trace>>
    /\ UNCHANGED cleanVars

\* Ctrl-D at the prompt.
EndOfInput ==
    /\ pc = "prompt"
    /\ Raised("EOFError")
    /\ UNCHANGED <<pa_list, query, tried, invoked, mat, title, html, value, answers,
                   printed, trace>>
    /\ UNCHANGED cleanVars

Next ==
    \/ Welcome
    \/ ReadQuery
    \/ WikiSearch
    \/ WikiPage
    \/ Extract
    \/ Interrupt
    \/ EndOfInput

Spec == Init /\ [][Next]_vars

\* ------------------------------------------------------------------ clean_text alone

CleanAlphabet == {"a", " ", "\n", "\t", NBSP}

InitClean ==
    /\ pc = "start"
    /\ pa_list = InitialPaList
    /\ query = <<>>
    /\ tried = {}
    /\ invoked = <<>>
    /\ mat = <<>>
    /\ title = PyNone
    /\ html = <<>>
    /\ value = PyNone
    /\ answers = PyNone
    /\ printed = <<>>
    /\ err = "none"
    /\ trace = <<>>
    /\ farewells = 0
    /\ text \in BoundedSeq(CleanAlphabet, MaxTextLen)
    /\ cleaned = <<>>
    /\ recleaned = <<>>
    /\ stage = "raw"

CleanOnce ==
    /\ stage = "raw"
    /\ cleaned' = clean_text(text)
    /\ stage' = "once"
    /\ UNCHANGED <<text, recleaned>>
    /\ UNCHANGED loopVars

CleanTwice ==
    /\ stage = "once"
    /\ recleaned' = clean_text(cleaned)
    /\ stage' = "twice"
    /\ UNCHANGED <<text, cleaned>>
    /\ UNCHANGED loopVars

NextClean ==
    \/ CleanOnce
    \/ CleanTwice

SpecClean == InitClean /\ [][NextClean]_vars

\* ------------------------------------------------------------------ properties

\* The errors a lookup can end with.
LookupErrors ==
    {"IndexError", "HTTPTimeoutError", "PageError", "DisambiguationError",
     "LookupError", "AttributeError"}

\* A query has been read and handed to search_pa_list.
Asked == tried # {}

\* The entries of the table whose pattern matches the query read.
Hits == {i \in 1..Len(pa_list) : match(pa_list[i].pat, query).ok}

\* sub occurs in line.
Contains(line, sub) ==
    \E k \in 0..Len(line) - Len(sub) : SubSeq(line, k + 1, k + Len(sub)) = sub

IsPrefix(s, t) == Len(s) <= Len(t) /\ s = SubSeq(t, 1, Len(s))

\* C1: whenever a lookup fails with a retrieval or extraction error, the
\* query loop has caught it and is back at the prompt: it never dies.
C1_LoopSurvivesLookupErrors ==
    err \in LookupErrors => pc = "prompt"

\* C2: the step that reads ["bye"] ends the loop: the action raises instead
\* of answering, nothing is answered or printed for the query, no
\* collaborator is called, the farewell is printed once; and once the loop
\* has ended it stays ended, with no further prompt and no further farewell.
C2_ByeStopsTheLoop ==
    [][/\ query' = <<"bye">> =>
            /\ pc' = "done"
            /\ err' = "KeyboardInterrupt"
            /\ answers' = PyNone
            /\ printed' = <<>>
            /\ trace' = <<>>
            /\ farewells' = 1
       /\ pc = "done" => (pc' = "done" /\ farewells' = farewells)]_vars

C2_Witness ==
    query = <<"bye">> /\ pc = "done" /\ invoked = <<7>> /\ farewells = 1

\* C3: a query that no pattern of the table matches is answered with
\* exactly ["I don't understand"]: no action is invoked, no collaborator is
\* called, no error ends the program.
C3_NoMatchIsNotUnderstood ==
    (Asked /\ Hits = {}) =>
        /\ answers = PyList(<<<<"I don't understand">>>>)
        /\ printed = <<<<"I don't understand">>>>
        /\ invoked = <<>>
        /\ trace = <<>>
        /\ err \notin LookupErrors
        /\ pc # "crashed"

C3_Witness ==
    query = <<"hello">> /\ pc = "prompt" /\ printed = <<<<"I don't understand">>>>

\* C4: when the dispatched action has returned, search_pa_list returns its
\* result unchanged if it is non-empty and ["No answers"] if it is empty;
\* ["No answers"] is returned only after a match, ["I don't understand"]
\* only without one.
C4_AnswerOfTheAction ==
    /\ value # PyNone =>
        /\ Len(value.val) > 0 => answers = value
        /\ Len(value.val) = 0 => answers = PyList(<<<<"No answers">>>>)
    /\ answers = PyList(<<<<"No answers">>>>) => (Hits # {} /\ invoked # <<>>)
    /\ answers = PyList(<<<<"I don't understand">>>>) => (Hits = {} /\ invoked = <<>>)

C4_Witness ==
    /\ pc = "prompt"
    /\ value = PyStr(<<"1", ":", "1">>)
    /\ answers = value
    /\ query = <<"what", "is", "the", "fastest", "time", "for", "mario">>

\* C5: the table is scanned in declaration order up to the first entry
\* whose pattern matches; that entry's action is the only one invoked, no
\* later entry is tried, and the table is never modified.
C5_FirstMatchOnly ==
    /\ pa_list = InitialPaList
    /\ Len(invoked) <= 1
    /\ Asked =>
        IF Hits = {} THEN invoked = <<>> /\ tried = 1..Len(pa_list)
        ELSE LET first == CHOOSE i \in Hits : \A j \in Hits : i <= j
             IN  invoked = <<first>> /\ tried = 1..first

C5_Witness ==
    /\ invoked = <<3>>
    /\ tried = {1, 2, 3}
    /\ query = <<"what", "is", "the", "highest", "score", "in", "mario", "kart">>

\* C6: after a successful lookup the loop has printed at least one line,
\* and every line printed is a sentence that contains both the subject
\* captured from the query and the value extracted from the infobox.
C6_AnswerSentences ==
    (pc = "prompt" /\ value # PyNone) =>
        /\ Len(printed) >= 1
        /\ \A i \in 1..Len(printed) :
            /\ Contains(printed[i], mat[1])
            /\ Contains(printed[i], value.val)

\* C7: for "what is the fastest time for" followed by one or more subject
\* tokens the first entry is dispatched, the capture is the subject tokens
\* joined by single spaces, and that str is the title the lookup receives.
C7_SubjectIsTheTitle ==
    (Asked /\ Len(query) > 6
        /\ SubSeq(query, 1, 6) = <<"what", "is", "the", "fastest", "time", "for">>) =>
        LET subject == Join(SubSeq(query, 7, Len(query)))
        IN  /\ invoked = <<1>>
            /\ mat = <<subject>>
            /\ title = PyStr(subject)

\* C8: clean_text is idempotent.
C8_CleanTextIdempotent ==
    stage = "twice" => recleaned = cleaned

C8_Witness ==
    /\ stage = "twice"
    /\ text = <<NBSP, " ", "\n", "\n">>
    /\ cleaned = <<" ", "\n">>

\* C9: the output of clean_text holds only printable characters, no two
\* spaces in a row and no two newlines in a row.
C9_CleanTextOutput ==
    stage \in {"once", "twice"} =>
        /\ \A i \in 1..Len(cleaned) : cleaned[i] \notin NonPrintable
        /\ \A i \in 1..Len(cleaned) - 1 :
            /\ ~(cleaned[i] = " " /\ cleaned[i + 1] = " ")
            /\ ~(cleaned[i] = "\n" /\ cleaned[i + 1] = "\n")

C9_Witness ==
    /\ stage = "once"
    /\ text = <<" ", "\n", "\n", NBSP>>
    /\ cleaned = <<" ", "\n", " ">>

\* C10: for one query the search runs at most once, then the page fetch at
\* most once, then the infobox extraction, then the field extraction, none
\* of them twice; a step that fails is the last step of the query; a query
\* that matches no pattern or matches "bye" runs none of them.
C10_NoRetry ==
    /\ IsPrefix(trace, <<"search", "page", "infobox", "match">>)
    /\ (invoked = <<>> \/ pa_list[invoked[1]].act = "bye_action") => trace = <<>>
    /\ err = "IndexError" => trace = <<"search">>
    /\ err = "HTTPTimeoutError" => trace \in {<<"search">>, <<"search", "page">>}
    /\ err \in {"PageError", "DisambiguationError"} => trace = <<"search", "page">>
    /\ err = "LookupError" => trace = <<"search", "page", "infobox">>
    /\ err = "AttributeError" => trace = <<"search", "page", "infobox", "match">>

C10_Witness ==
    /\ pc = "crashed"
    /\ err = "LookupError"
    /\ trace = <<"search", "page", "infobox">>

====
